---- MODULE Spec2Model ----
(***************************************************************************)
(* A model of tools/parse-reports.py: the scraper that turns Gradle's      *)
(* JUnit and Checkstyle reports into GitHub annotations.                   *)
(*                                                                         *)
(* Text (a failure's body, its message attribute, a Checkstyle message) is *)
(* a sequence of lexical tokens; Render gives the characters of a token.   *)
(* The regular expressions of the script are matchers over such sequences. *)
(* Every print() of the script appends one record to out: the statement    *)
(* that printed it (kind) and the string it printed (text).                *)
(***************************************************************************)
EXTENDS Integers, Sequences, FiniteSets, TLC

VARIABLES
    disk,     \* the paths that exist on disk (os.path.exists)
    arg,      \* the argument of the function called on its own
    ret,      \* its return value
    pc,       \* the position of the script
    out,      \* standard output: the records printed so far
    proj,     \* index into PROJECT_LOCATIONS of the running scan's loop
    parsed    \* the report files handed to ET.parse so far, in order

vars == <<disk, arg, ret, pc, out, proj, parsed>>

----------------------------------------------------------------------------
(* Bounds of the model. *)

MaxLead == 2        \* leading '/' characters of a path
MaxLines == 3       \* lines of a failure body
MaxMsgLen == 5      \* tokens of a message attribute
MaxCases == 2       \* children of a JUnit report root
MaxFiles == 2       \* report files found by the globs of one run

----------------------------------------------------------------------------
(* Python's None, and sequences. *)

None == <<>>

Last(s) == s[Len(s)]

\* the sequences over S of length at most n
SeqsUpTo(S, n) == UNION {[1..k -> S] : k \in 0..n}

----------------------------------------------------------------------------
(* Configuration data. *)

SOURCE_LOCATIONS ==
    << "src/main/java",
       "src/main/resources/data/computercraft/lua",
       "src/test/java",
       "src/test/resources" >>

PROJECT_LOCATIONS ==
    << "projects/core-api",
       "projects/core",
       "projects/common-api",
       "projects/common",
       "projects/forge-api",
       "projects/forge" >>

----------------------------------------------------------------------------
(* Tokens of text. *)

TAB == [k |-> "tab"]
SP == [k |-> "sp"]
NL == [k |-> "nl"]
\* text without whitespace that is no part of any location pattern
Txt(s) == [k |-> "txt", s |-> s]
\* "stack traceback:", the literal of ERROR_MESSAGE
TRACEBACK == [k |-> "traceback"]
\* "java.lang.IllegalStateException: ", the literal of JAVA_LUA_ERROR_LOCATION
ISE == [k |-> "ise"]
\* "<path>:<line>:", path a '/' followed by more of [\w./-]: lead counts the
\* leading '/' characters and rest is what follows them
Loc(lead, rest, line) == [k |-> "loc", lead |-> lead, rest |-> rest, line |-> line]
\* "at <cls>.<method>(<File>:<line>)", cls the dot-separated qualified name
Frame(cls, line) == [k |-> "frame", cls |-> cls, line |-> line]

IsSpace(t) == t.k \in {"tab", "sp", "nl"}

RECURSIVE Slashes(_)
Slashes(n) == IF n = 0 THEN "" ELSE "/" \o Slashes(n - 1)

\* a path argument as the string it is
PathStr(p) == Slashes(p.lead) \o p.rest

RECURSIVE JoinWith(_, _)
JoinWith(parts, sep) ==
    IF Len(parts) = 0 THEN ""
    ELSE IF Len(parts) = 1 THEN parts[1]
    ELSE parts[1] \o sep \o JoinWith(Tail(parts), sep)

Render(t) ==
    CASE t.k = "tab" -> "\t"
      [] t.k = "sp" -> " "
      [] t.k = "nl" -> "\n"
      [] t.k = "txt" -> t.s
      [] t.k = "traceback" -> "stack traceback:"
      [] t.k = "ise" -> "java.lang.IllegalStateException: "
      [] t.k = "loc" -> Slashes(t.lead) \o t.rest \o ":" \o t.line \o ":"
      [] t.k = "frame" ->
            "at " \o JoinWith(t.cls, ".") \o ".run(" \o Last(t.cls) \o ".java:" \o t.line \o ")"

RECURSIVE RenderAll(_)
RenderAll(text) == IF text = <<>> THEN "" ELSE Render(Head(text)) \o RenderAll(Tail(text))

----------------------------------------------------------------------------
(* find_file *)

\* os.path.join(project, source_dir, path): an absolute last part discards
\* the parts before it
path_join(project, source_dir, path) ==
    IF path.lead > 0 THEN PathStr(path)
    ELSE project \o "/" \o source_dir \o "/" \o path.rest

\* the while loop: drop every leading '/'
RECURSIVE strip_slashes(_)
strip_slashes(path) ==
    IF path.lead > 0 THEN strip_slashes([path EXCEPT !.lead = path.lead - 1]) ELSE path

\* probe with the loops nested the other way round: source roots outside
RECURSIVE probe_source_major(_, _, _)
probe_source_major(path, i, j) ==
    IF j > Len(SOURCE_LOCATIONS) THEN None
    ELSE IF i > Len(PROJECT_LOCATIONS) THEN probe_source_major(path, 1, j + 1)
    ELSE LET child_path == path_join(PROJECT_LOCATIONS[i], SOURCE_LOCATIONS[j], path)
         IN  IF child_path \in disk THEN <<child_path>>
             ELSE probe_source_major(path, i + 1, j)

\* the nested loops, from PROJECT_LOCATIONS[i] and SOURCE_LOCATIONS[j] on
RECURSIVE probe(_, _, _)
probe(path, i, j) ==
    IF i > Len(PROJECT_LOCATIONS) THEN None
    ELSE IF j > Len(SOURCE_LOCATIONS) THEN probe(path, i + 1, 1)
    ELSE LET child_path == path_join(PROJECT_LOCATIONS[i], SOURCE_LOCATIONS[j], path)
         IN  IF child_path \in disk THEN <<child_path>> ELSE probe(path, i, j + 1)

find_file(path) == probe(strip_slashes(path), 1, 1)

----------------------------------------------------------------------------
(* find_location *)

LineStart(text, i) == i = 1 \/ text[i - 1] = NL

\* the end of the run of whitespace that starts at i (i itself if none)
RECURSIVE SkipSpace(_, _)
SkipSpace(text, i) ==
    IF i <= Len(text) /\ IsSpace(text[i]) THEN SkipSpace(text, i + 1) ELSE i

\* LuaMatchAt with \s* for \s+: a path at the very start of a line matches
LuaMatchAt_optional_space(text, i) ==
    /\ LineStart(text, i)
    /\ SkipSpace(text, i) <= Len(text)
    /\ text[SkipSpace(text, i)].k = "loc"

\* LUA_ERROR_LOCATION matches at i: ^ \s+ (path):(line): under re.MULTILINE
LuaMatchAt(text, i) ==
    /\ LineStart(text, i)
    /\ SkipSpace(text, i) > i
    /\ SkipSpace(text, i) <= Len(text)
    /\ text[SkipSpace(text, i)].k = "loc"

\* LUA_ERROR_LOCATION.search: the groups of the leftmost match, or None
LUA_ERROR_LOCATION(text) ==
    LET starts == {i \in 1..Len(text) : LuaMatchAt(text, i)}
    IN  IF starts = {} THEN None
        ELSE LET i == CHOOSE m \in starts : \A n \in starts : m <= n
                 t == text[SkipSpace(text, i)]
             IN  <<[lead |-> t.lead, rest |-> t.rest], t.line>>

\* JAVA_LUA_ERROR_LOCATION.search: anchored at the start of the string
JAVA_LUA_ERROR_LOCATION(text) ==
    IF Len(text) >= 2 /\ text[1] = ISE /\ text[2].k = "loc"
    THEN <<[lead |-> text[2].lead, rest |-> text[2].rest], text[2].line>>
    ELSE None

\* JAVA_ERROR_LOCATION matches at i: ^ \t at (cls).method(File:(line)) $
JavaMatchAt(text, i) ==
    /\ LineStart(text, i)
    /\ text[i] = TAB
    /\ i + 1 <= Len(text)
    /\ text[i + 1].k = "frame"
    /\ (i + 1 = Len(text) \/ text[i + 2] = NL)

\* JAVA_ERROR_LOCATION.findall: the groups of every match, in textual order
RECURSIVE JavaFindAllFrom(_, _)
JavaFindAllFrom(text, i) ==
    IF i > Len(text) THEN <<>>
    ELSE IF JavaMatchAt(text, i)
         THEN <<<<text[i + 1].cls, text[i + 1].line>>>> \o JavaFindAllFrom(text, i + 2)
         ELSE JavaFindAllFrom(text, i + 1)

JAVA_ERROR_LOCATION(text) == JavaFindAllFrom(text, 1)

\* location[0].replace(".", "/") + ".java"
java_path(cls) == [lead |-> 0, rest |-> JoinWith(cls, "/") \o ".java"]

\* first_frame giving up at the first frame that does not resolve
first_frame_no_skip(frames) ==
    IF frames = <<>> THEN None
    ELSE LET file == find_file(java_path(Head(frames)[1]))
         IN  IF file # None THEN <<file[1], Head(frames)[2]>> ELSE None

\* the for loop over the frames found
RECURSIVE first_frame(_)
first_frame(frames) ==
    IF frames = <<>> THEN None
    ELSE LET file == find_file(java_path(Head(frames)[1]))
         IN  IF file # None THEN <<file[1], Head(frames)[2]>>
             ELSE first_frame(Tail(frames))

java_lua_location(message) ==
    LET location == JAVA_LUA_ERROR_LOCATION(message)
        file == IF location = None THEN None ELSE find_file(location[1])
    IN  IF file # None THEN <<file[1], location[2]>>
        ELSE first_frame(JAVA_ERROR_LOCATION(message))

\* find_location returning the Lua match whether or not its file resolves
find_location_unresolved(message) ==
    LET location == LUA_ERROR_LOCATION(message)
    IN  IF location # None THEN <<PathStr(location[1]), location[2]>>
        ELSE java_lua_location(message)

find_location(message) ==
    LET location == LUA_ERROR_LOCATION(message)
        file == IF location = None THEN None ELSE find_file(location[1])
    IN  IF file # None THEN <<file[1], location[2]>>
        ELSE java_lua_location(message)

----------------------------------------------------------------------------
(* XML: what ET.parse(path).getroot() gives. A report file either fails to *)
(* parse (ok = FALSE) or is the sequence of its root's children; an        *)
(* element is its tag, its attributes (a function from the names that are  *)
(* present), its text (<<>> when it has none: Python's None) and its       *)
(* children.                                                               *)

Malformed == [ok |-> FALSE, root |-> <<>>]
Report(children) == [ok |-> TRUE, root |-> children]
Element(tag, attrib, text, children) ==
    [tag |-> tag, attrib |-> attrib, text |-> text, children |-> children]

Has(attrib, key) == key \in DOMAIN attrib

\* one print(): the statement that prints and the string printed
Printed(kind, text) == [kind |-> kind, text |-> text]

----------------------------------------------------------------------------
(* _parse_junit_file *)

\* ERROR_MESSAGE.match(message): (.*) is greedy and DOTALL, so group 1 ends
\* where the last "\nstack traceback:" starts; <<group 1>>, or None
ERROR_MESSAGE(message) ==
    LET ends == {i \in 1..(Len(message) - 1) : message[i] = NL /\ message[i + 1] = TRACEBACK}
    IN  IF ends = {} THEN None
        ELSE LET i == CHOOSE m \in ends : \A n \in ends : n <= m
             IN  <<SubSeq(message, 1, i - 1)>>

\* SPACES.sub(" ", text): every maximal run of whitespace becomes one space
RECURSIVE SPACES_sub(_)
SPACES_sub(text) ==
    IF text = <<>> THEN <<>>
    ELSE IF IsSpace(Head(text))
         THEN <<SP>> \o SPACES_sub(SubSeq(text, SkipSpace(text, 1), Len(text)))
         ELSE <<Head(text)>> \o SPACES_sub(Tail(text))

\* error_of with a lazy (.*?): group 1 ends at the first "\nstack traceback:"
error_of_first_marker(message) ==
    LET ends == {i \in 1..(Len(message) - 1) : message[i] = NL /\ message[i + 1] = TRACEBACK}
    IN  IF ends = {} THEN message
        ELSE SubSeq(message, 1, (CHOOSE m \in ends : \A n \in ends : m <= n) - 1)

\* the summary of lines 88 to 92, of a message that is present
error_of(message) ==
    LET error == ERROR_MESSAGE(message)
    IN  IF error # None THEN error[1] ELSE message

\* junit_failure degrading instead of raising: a failure it cannot name or
\* summarise is printed as an unlocated error
junit_failure_lenient(testcase, result) ==
    [raised |-> FALSE,
     lines |-> << Printed("error", "::error::? failed"),
                  Printed("group", "::group::Full error message"),
                  Printed("text", RenderAll(result.text)),
                  Printed("endgroup", "::endgroup") >>]

\* the body of the inner loop for one failure element: what it prints, and
\* whether it raises (KeyError of a missing classname or name, TypeError of
\* a None text or a None message) before printing
junit_failure(testcase, result) ==
    IF \/ ~Has(testcase.attrib, "classname")
       \/ ~Has(testcase.attrib, "name")
       \/ result.text = None
       \/ ~Has(result.attrib, "message")
    THEN [raised |-> TRUE, lines |-> <<>>]
    ELSE LET name == testcase.attrib.classname \o "." \o testcase.attrib.name
             message == result.attrib.message
             location == find_location(result.text)
             error == error_of(message)
             header ==
                 IF location # None
                 THEN Printed("annotation",
                        "## " \o location[1] \o ":" \o location[2] \o ": " \o name
                              \o " failed: " \o RenderAll(SPACES_sub(error)))
                 ELSE Printed("error", "::error::" \o name \o " failed")
         IN  [raised |-> FALSE,
              lines |-> << header,
                           Printed("group", "::group::Full error message"),
                           Printed("text", RenderAll(result.text)),
                           Printed("endgroup", "::endgroup") >>]

\* junit_results taking every child of a testcase for a failure
RECURSIVE junit_results_any_tag(_, _)
junit_results_any_tag(testcase, results) ==
    IF results = <<>> THEN [raised |-> FALSE, lines |-> <<>>]
    ELSE LET one == junit_failure(testcase, Head(results))
             rest == junit_results_any_tag(testcase, Tail(results))
         IN  IF one.raised THEN one
             ELSE [raised |-> rest.raised, lines |-> one.lines \o rest.lines]

\* the inner loop: for result in testcase
RECURSIVE junit_results(_, _)
junit_results(testcase, results) ==
    IF results = <<>> THEN [raised |-> FALSE, lines |-> <<>>]
    ELSE IF Head(results).tag # "failure" THEN junit_results(testcase, Tail(results))
    ELSE LET one == junit_failure(testcase, Head(results))
             rest == junit_results(testcase, Tail(results))
         IN  IF one.raised THEN one
             ELSE [raised |-> rest.raised, lines |-> one.lines \o rest.lines]

\* the outer loop: for testcase in root
RECURSIVE junit_testcases(_)
junit_testcases(root) ==
    IF root = <<>> THEN [raised |-> FALSE, lines |-> <<>>]
    ELSE IF Head(root).tag # "testcase" THEN junit_testcases(Tail(root))
    ELSE LET one == junit_results(Head(root), Head(root).children)
             rest == junit_testcases(Tail(root))
         IN  IF one.raised THEN one
             ELSE [raised |-> rest.raised, lines |-> one.lines \o rest.lines]

\* ET.parse raises ParseError on malformed XML, before anything is printed
_parse_junit_file(file) ==
    IF ~file.ok THEN [raised |-> TRUE, lines |-> <<>>] ELSE junit_testcases(file.root)

----------------------------------------------------------------------------
(* _parse_checkstyle *)

\* the directory the script runs in, as path components
cwd == <<"repo">>

\* a file name: absolute or not, and its components
FileName(abs, parts) == [abs |-> abs, parts |-> parts]

RECURSIVE CommonPrefix(_, _)
CommonPrefix(a, b) ==
    IF a = <<>> \/ b = <<>> \/ Head(a) # Head(b) THEN 0
    ELSE 1 + CommonPrefix(Tail(a), Tail(b))

\* os.path.relpath(name): name made relative to cwd ("." if they are the same)
relpath(name) ==
    LET full == IF name.abs THEN name.parts ELSE cwd \o name.parts
        n == CommonPrefix(cwd, full)
        ups == [i \in 1..(Len(cwd) - n) |-> ".."]
        rel == ups \o SubSeq(full, n + 1, Len(full))
    IN  IF rel = <<>> THEN "." ELSE JoinWith(rel, "/")

\* the body of the inner loop for one child of one child of the root; raises
\* KeyError of a missing name, severity, line or message, and ValueError of
\* an empty name, before printing
checkstyle_error(file, error) ==
    IF \/ ~Has(file.attrib, "name")
       \/ ~Has(error.attrib, "severity")
       \/ ~Has(error.attrib, "line")
       \/ ~Has(error.attrib, "message")
    THEN [raised |-> TRUE, lines |-> <<>>]
    ELSE IF ~file.attrib.name.abs /\ file.attrib.name.parts = <<>>
    THEN [raised |-> TRUE, lines |-> <<>>]
    ELSE LET filename == relpath(file.attrib.name)
             attrib == error.attrib
             column == IF Has(attrib, "column") THEN attrib.column ELSE "1"
         IN  [raised |-> FALSE,
              lines |-> << Printed("issue",
                   attrib.severity \o " " \o filename \o ":" \o attrib.line \o ":" \o column
                       \o ": " \o RenderAll(SPACES_sub(attrib.message))) >>]

\* the inner loop: for error in file
RECURSIVE checkstyle_errors(_, _)
checkstyle_errors(file, errors) ==
    IF errors = <<>> THEN [raised |-> FALSE, lines |-> <<>>]
    ELSE LET one == checkstyle_error(file, Head(errors))
             rest == checkstyle_errors(file, Tail(errors))
         IN  IF one.raised THEN one
             ELSE [raised |-> rest.raised, lines |-> one.lines \o rest.lines]

\* the outer loop: for file in root
RECURSIVE checkstyle_files(_)
checkstyle_files(root) ==
    IF root = <<>> THEN [raised |-> FALSE, lines |-> <<>>]
    ELSE LET one == checkstyle_errors(Head(root), Head(root).children)
             rest == checkstyle_files(Tail(root))
         IN  IF one.raised THEN one
             ELSE [raised |-> rest.raised, lines |-> one.lines \o rest.lines]

_parse_checkstyle(file) ==
    IF ~file.ok THEN [raised |-> TRUE, lines |-> <<>>] ELSE checkstyle_files(file.root)

----------------------------------------------------------------------------
(* parse_junit, parse_checkstyle and the script's main block, step by step *)

junit_add_matcher == Printed("add-matcher", "::add-matcher::.github/matchers/junit.json")
junit_remove_matcher == Printed("remove-matcher", "::remove-matcher owner=junit::")
checkstyle_add_matcher ==
    Printed("add-matcher", "::add-matcher::.github/matchers/checkstyle.json")
checkstyle_remove_matcher == Printed("remove-matcher", "::remove-matcher owner=checkstyle::")

\* a report file found by a glob, with the scan that found it
Found(scan, file) == [scan |-> scan, file |-> file]

\* the tests the sample reports are about
TestAttrib == [classname |-> "T", name |-> "t"]

LuaBody == <<Txt("oops"), NL, TRACEBACK, NL, TAB, Loc(1, "test.lua", "42")>>
JavaBody == <<Txt("boom"), NL, TAB, Frame(<<"cc", "Foo">>, "7")>>
PlainBody == <<Txt("boom")>>
PlainMessage == <<Txt("boom")>>
TraceMessage == <<Txt("boom"), NL, SP, Txt("x"), NL, TRACEBACK, NL, TAB>>

FailLua == Element("failure", [message |-> TraceMessage], LuaBody, <<>>)
FailJava == Element("failure", [message |-> PlainMessage], JavaBody, <<>>)
FailPlain == Element("failure", [message |-> PlainMessage], PlainBody, <<>>)
FailNoMessage == Element("failure", [type |-> "E"], LuaBody, <<>>)
FailNoText == Element("failure", [message |-> PlainMessage], None, <<>>)
SystemOut == Element("system-out", [message |-> PlainMessage], PlainBody, <<>>)

Testcase(results) == Element("testcase", TestAttrib, None, results)

CoreLua == "projects/core/src/test/resources/test.lua"
CoreFoo == "projects/core/src/main/java/cc/Foo.java"
CommonBar == "projects/common/src/main/java/cc/Bar.java"
CoreTopFoo == "projects/core/src/main/java/Foo.java"

\* the report files a glob of the JUnit scan may find
SampleJUnitFiles ==
    { Malformed,
      Report(<<>>),
      Report(<<Testcase(<<>>), Testcase(<<FailLua>>)>>),
      Report(<<Testcase(<<FailPlain>>), Element("properties", TestAttrib, None, <<FailLua>>)>>),
      Report(<<Testcase(<<SystemOut, FailJava>>), Testcase(<<FailNoMessage>>),
               Testcase(<<FailLua>>)>>),
      Report(<<Testcase(<<FailPlain, FailNoText, FailLua>>)>>),
      Report(<<Element("testcase", [classname |-> "T"], None, <<FailLua>>)>>) }

CheckstyleError(attrib) == Element("error", attrib, None, <<>>)
CheckstyleFile(attrib, errors) == Element("file", attrib, None, errors)

NameA == FileName(FALSE, <<"A.java">>)
NameInRepo == FileName(TRUE, <<"repo", "src", "A.java">>)
NameOutside == FileName(TRUE, <<"tmp", "A.java">>)

ErrorPlain == CheckstyleError([severity |-> "error", line |-> "3", message |-> <<Txt("bad")>>])
ErrorColumn ==
    CheckstyleError([severity |-> "warning", line |-> "3", column |-> "5",
                     message |-> <<Txt("bad"), NL, SP, SP, Txt("style")>>])
ErrorNoMessage == CheckstyleError([severity |-> "error", line |-> "3"])

\* the report files a glob of the Checkstyle scan may find
SampleCheckstyleFiles ==
    { Malformed,
      Report(<<>>),
      Report(<<CheckstyleFile([name |-> NameA], <<ErrorPlain>>)>>),
      Report(<<CheckstyleFile([name |-> NameInRepo], <<ErrorColumn, ErrorPlain>>),
               CheckstyleFile([name |-> NameA], <<>>)>>),
      Report(<<CheckstyleFile([name |-> NameA], <<ErrorPlain, ErrorNoMessage, ErrorColumn>>)>>) }

Init ==
    /\ disk \in {{}, {CoreLua, CoreFoo}}
    /\ arg = None
    /\ ret = None
    /\ pc = "start"
    /\ out = <<>>
    /\ proj = 0
    /\ parsed = <<>>

\* parse_junit is called and prints its add-matcher directive
parse_junit_begin ==
    /\ pc = "start"
    /\ out' = Append(out, junit_add_matcher)
    /\ proj' = 1
    /\ pc' = "junit"
    /\ UNCHANGED <<disk, arg, ret, parsed>>

\* parse_junit_file with the exception caught per file: the scan goes on
parse_junit_file_recovering ==
    /\ pc = "junit"
    /\ proj <= Len(PROJECT_LOCATIONS)
    /\ Len(parsed) < MaxFiles
    /\ \E file \in SampleJUnitFiles :
          /\ out' = out \o _parse_junit_file(file).lines
          /\ parsed' = Append(parsed, Found("junit", file))
    /\ UNCHANGED <<disk, arg, ret, pc, proj>>

\* the glob of the current project yields one more file, which is parsed
parse_junit_file ==
    /\ pc = "junit"
    /\ proj <= Len(PROJECT_LOCATIONS)
    /\ Len(parsed) < MaxFiles
    /\ \E file \in SampleJUnitFiles :
          LET r == _parse_junit_file(file)
          IN  /\ out' = out \o r.lines
              /\ parsed' = Append(parsed, Found("junit", file))
              /\ pc' = IF r.raised THEN "aborted" ELSE pc
    /\ UNCHANGED <<disk, arg, ret, proj>>

\* the glob of the current project is exhausted (at once when the report
\* directory is missing or holds no match)
parse_junit_next_project ==
    /\ pc = "junit"
    /\ proj <= Len(PROJECT_LOCATIONS)
    /\ proj' = proj + 1
    /\ UNCHANGED <<disk, arg, ret, pc, out, parsed>>

\* parse_junit_end without its print: the matcher is never removed
parse_junit_end_silent ==
    /\ pc = "junit"
    /\ proj > Len(PROJECT_LOCATIONS)
    /\ pc' = "between"
    /\ UNCHANGED <<disk, arg, ret, out, proj, parsed>>

\* parse_junit prints its remove-matcher directive and returns
parse_junit_end ==
    /\ pc = "junit"
    /\ proj > Len(PROJECT_LOCATIONS)
    /\ out' = Append(out, junit_remove_matcher)
    /\ pc' = "between"
    /\ UNCHANGED <<disk, arg, ret, proj, parsed>>

parse_checkstyle_begin ==
    /\ pc = "between"
    /\ out' = Append(out, checkstyle_add_matcher)
    /\ proj' = 1
    /\ pc' = "checkstyle"
    /\ UNCHANGED <<disk, arg, ret, parsed>>

parse_checkstyle_file ==
    /\ pc = "checkstyle"
    /\ proj <= Len(PROJECT_LOCATIONS)
    /\ Len(parsed) < MaxFiles
    /\ \E file \in SampleCheckstyleFiles :
          LET r == _parse_checkstyle(file)
          IN  /\ out' = out \o r.lines
              /\ parsed' = Append(parsed, Found("checkstyle", file))
              /\ pc' = IF r.raised THEN "aborted" ELSE pc
    /\ UNCHANGED <<disk, arg, ret, proj>>

parse_checkstyle_next_project ==
    /\ pc = "checkstyle"
    /\ proj <= Len(PROJECT_LOCATIONS)
    /\ proj' = proj + 1
    /\ UNCHANGED <<disk, arg, ret, pc, out, parsed>>

parse_checkstyle_end ==
    /\ pc = "checkstyle"
    /\ proj > Len(PROJECT_LOCATIONS)
    /\ out' = Append(out, checkstyle_remove_matcher)
    /\ pc' = "done"
    /\ UNCHANGED <<disk, arg, ret, proj, parsed>>

Next ==
    \/ parse_junit_begin
    \/ parse_junit_file
    \/ parse_junit_next_project
    \/ parse_junit_end
    \/ parse_checkstyle_begin
    \/ parse_checkstyle_file
    \/ parse_checkstyle_next_project
    \/ parse_checkstyle_end

Spec == Init /\ [][Next]_vars

----------------------------------------------------------------------------
(* What the claims speak of. *)

\* the places of a record in the output
Idx(rec) == {i \in 1..Len(out) : out[i] = rec}

JUnitKinds == {"annotation", "error", "group", "text", "endgroup"}

\* the (testcase, failure) pairs of a report root, in document order
RECURSIVE FailuresIn(_, _)
FailuresIn(testcase, results) ==
    IF results = <<>> THEN <<>>
    ELSE (IF Head(results).tag = "failure" THEN <<<<testcase, Head(results)>>>> ELSE <<>>)
         \o FailuresIn(testcase, Tail(results))

RECURSIVE FailuresOf(_)
FailuresOf(root) ==
    IF root = <<>> THEN <<>>
    ELSE (IF Head(root).tag = "testcase"
          THEN FailuresIn(Head(root), Head(root).children) ELSE <<>>)
         \o FailuresOf(Tail(root))

\* a failure the script cannot name or summarise, or that has no body
Defective(pair) ==
    \/ ~Has(pair[1].attrib, "classname")
    \/ ~Has(pair[1].attrib, "name")
    \/ ~Has(pair[2].attrib, "message")
    \/ pair[2].text = None

\* how many failures of the root come before its first defective one
SoundBefore(root) ==
    LET fs == FailuresOf(root)
        bad == {i \in 1..Len(fs) : Defective(fs[i])}
    IN  IF bad = {} THEN Len(fs) ELSE (CHOOSE m \in bad : \A n \in bad : m <= n) - 1

QualifiedName(pair) == pair[1].attrib.classname \o "." \o pair[1].attrib.name

\* what the files parsed[1..n] of one scan printed, every one of them whole
RECURSIVE ScanLines(_, _)
ScanLines(scan, n) ==
    IF n = 0 THEN <<>>
    ELSE ScanLines(scan, n - 1) \o
         (IF parsed[n].scan # scan THEN <<>>
          ELSE IF scan = "junit" THEN _parse_junit_file(parsed[n].file).lines
          ELSE _parse_checkstyle(parsed[n].file).lines)

\* parsing the report raises an exception
Raises(found) ==
    IF found.scan = "junit" THEN _parse_junit_file(found.file).raised
    ELSE _parse_checkstyle(found.file).raised

\* the output before file parsed[k] is parsed
OutputBefore(k) ==
    <<junit_add_matcher>> \o ScanLines("junit", k - 1) \o
    (IF parsed[k].scan = "checkstyle"
     THEN <<junit_remove_matcher, checkstyle_add_matcher>> \o ScanLines("checkstyle", k - 1)
     ELSE <<>>)

\* C7: each matcher directive is printed at most once, and exactly once by
\* the time the run is done; every JUnit record lies after the JUnit
\* add-matcher and before the JUnit remove-matcher, every Checkstyle issue
\* after the Checkstyle add-matcher and before the Checkstyle remove-matcher;
\* the Checkstyle bracket opens only after the JUnit bracket has closed; a
\* finished run starts with the JUnit add-matcher, ends with the Checkstyle
\* remove-matcher, and has the Checkstyle add-matcher right after the JUnit
\* remove-matcher.
C7_MatcherBrackets ==
    /\ \A d \in {junit_add_matcher, junit_remove_matcher,
                 checkstyle_add_matcher, checkstyle_remove_matcher} :
          /\ Cardinality(Idx(d)) <= 1
          /\ pc = "done" => Cardinality(Idx(d)) = 1
    /\ \A i \in 1..Len(out) :
          /\ out[i].kind \in JUnitKinds =>
                /\ \E a \in Idx(junit_add_matcher) : a < i
                /\ \A r \in Idx(junit_remove_matcher) : i < r
          /\ out[i].kind = "issue" =>
                /\ \E a \in Idx(checkstyle_add_matcher) : a < i
                /\ \A r \in Idx(checkstyle_remove_matcher) : i < r
    /\ \A r \in Idx(junit_remove_matcher) : \E a \in Idx(junit_add_matcher) : a < r
    /\ \A a \in Idx(checkstyle_add_matcher) : \E r \in Idx(junit_remove_matcher) : r < a
    /\ \A r \in Idx(checkstyle_remove_matcher) : \E a \in Idx(checkstyle_add_matcher) : a < r
    /\ pc = "done" =>
          /\ out[1] = junit_add_matcher
          /\ out[Len(out)] = checkstyle_remove_matcher
          /\ \A r \in Idx(junit_remove_matcher) : out[r + 1] = checkstyle_add_matcher

\* a finished run that printed a JUnit failure block and a Checkstyle issue
C7_Witness ==
    /\ pc = "done"
    /\ \E i, j \in 1..Len(out) : out[i].kind = "annotation" /\ out[j].kind = "issue"

\* C9: a report file with malformed XML is the last file the run parses:
\* the run is aborted, and the output is what had been printed before that
\* file was parsed, so nothing of the file, no remove-matcher of its scan
\* and, when it is a JUnit report, no directive of the Checkstyle scan. A
\* run aborts only in a file whose parsing raises: a scan whose globs find
\* no file never does.
C9_MalformedAborts ==
    /\ \A k \in 1..Len(parsed) :
          ~parsed[k].file.ok =>
             /\ pc = "aborted"
             /\ k = Len(parsed)
             /\ out = OutputBefore(k)
             /\ (IF parsed[k].scan = "junit" THEN junit_remove_matcher
                 ELSE checkstyle_remove_matcher) \notin {out[i] : i \in 1..Len(out)}
             /\ parsed[k].scan = "junit" => Idx(checkstyle_add_matcher) = {}
    /\ pc = "aborted" => (parsed # <<>> /\ Raises(Last(parsed)))

\* a JUnit scan that printed a failure block and then met a malformed file
C9_Witness ==
    /\ pc = "aborted"
    /\ Len(parsed) = 2
    /\ parsed[2] = Found("junit", Malformed)
    /\ Len(out) > 1

\* C10: a JUnit report with a failure that lacks its message (or its body),
\* or whose testcase lacks classname or name, is the last file the run
\* parses: the run is aborted, and after the output of the earlier files
\* come only the blocks, four records each, of the failures before the
\* first such failure. Among those, a failure without a location has the
\* header "::error::<qualified-name> failed".
C10_MissingAttributeAborts ==
    \A k \in 1..Len(parsed) :
       LET file == parsed[k].file
           fs == FailuresOf(file.root)
           n == SoundBefore(file.root)
           base == Len(OutputBefore(k))
       IN  (parsed[k].scan = "junit" /\ file.ok /\ n < Len(fs)) =>
              /\ pc = "aborted"
              /\ k = Len(parsed)
              /\ Len(out) = base + 4 * n
              /\ SubSeq(out, 1, base) = OutputBefore(k)
              /\ \A j \in 1..n :
                    /\ out[base + 4 * j - 3].kind \in {"annotation", "error"}
                    /\ find_location(fs[j][2].text) = None =>
                          out[base + 4 * j - 3] =
                             Printed("error", "::error::" \o QualifiedName(fs[j]) \o " failed")
                    /\ out[base + 4 * j - 2].kind = "group"
                    /\ out[base + 4 * j - 1] = Printed("text", RenderAll(fs[j][2].text))
                    /\ out[base + 4 * j].kind = "endgroup"

\* a failure without a location was printed as an error, and the next
\* failure of the same report lacks its message
C10_Witness ==
    /\ pc = "aborted"
    /\ parsed # <<>>
    /\ Last(parsed).scan = "junit"
    /\ Last(parsed).file.ok
    /\ LET fs == FailuresOf(Last(parsed).file.root)
           n == SoundBefore(Last(parsed).file.root)
       IN  /\ n >= 1
           /\ ~Has(fs[n + 1][2].attrib, "message")
           /\ find_location(fs[n][2].text) = None
           /\ out[Len(out) - 3].kind = "error"

----------------------------------------------------------------------------
(* find_file on its own: any disk of at most two files under the roots,    *)
(* any path with up to MaxLead leading separators.                         *)

RelativeNames == {"test.lua", "cc/Foo.java"}

UnderRoots ==
    {PROJECT_LOCATIONS[i] \o "/" \o SOURCE_LOCATIONS[j] \o "/" \o name :
        i \in 1..Len(PROJECT_LOCATIONS), j \in 1..Len(SOURCE_LOCATIONS), name \in RelativeNames}

InitFile ==
    /\ arg \in [lead : 0..MaxLead, rest : RelativeNames]
    /\ disk \in {{}} \cup {{a, b} : a, b \in UnderRoots}
    /\ ret = None
    /\ pc = "call"
    /\ out = <<>>
    /\ proj = 0
    /\ parsed = <<>>

call_find_file ==
    /\ pc = "call"
    /\ ret' = find_file(arg)
    /\ pc' = "return"
    /\ UNCHANGED <<disk, arg, out, proj, parsed>>

NextFile == call_find_file

SpecFile == InitFile /\ [][NextFile]_vars

\* the (project, source root) pairs under which the stripped path exists
Hits(rest) ==
    {ij \in (1..Len(PROJECT_LOCATIONS)) \X (1..Len(SOURCE_LOCATIONS)) :
        (PROJECT_LOCATIONS[ij[1]] \o "/" \o SOURCE_LOCATIONS[ij[2]] \o "/" \o rest) \in disk}

\* ij comes no later than kl in project-then-source-root order
NoLater(ij, kl) == ij[1] < kl[1] \/ (ij[1] = kl[1] /\ ij[2] <= kl[2])

\* C1: find_file returns None exactly when the path, its leading
\* separators dropped, exists under no (project root, source root) pair;
\* otherwise it returns project/source_root/path of the pair that comes
\* first in declared project-then-source-root order, an existing file.
C1_FirstExisting ==
    pc = "return" =>
       IF Hits(arg.rest) = {} THEN ret = None
       ELSE \E ij \in Hits(arg.rest) :
               /\ \A kl \in Hits(arg.rest) : NoLater(ij, kl)
               /\ ret = <<PROJECT_LOCATIONS[ij[1]] \o "/" \o SOURCE_LOCATIONS[ij[2]]
                             \o "/" \o arg.rest>>
               /\ ret[1] \in disk

\* a path with two leading separators that exists under a later project's
\* earlier source root and an earlier project's later source root
C1_Witness ==
    /\ pc = "return"
    /\ arg.lead = 2
    /\ ret # None
    /\ \E ij, kl \in Hits(arg.rest) : ij[1] < kl[1] /\ ij[2] > kl[2]

----------------------------------------------------------------------------
(* find_location on its own: texts of up to MaxLines lines, each line one  *)
(* that some matcher takes or just misses, over every disk that holds some *)
(* of the files the lines name.                                            *)

SampleLines ==
    { <<TAB, Loc(1, "test.lua", "42"), SP, Txt("boom")>>,   \* a Lua trace line
      <<SP, Loc(2, "gone.lua", "5")>>,         \* a Lua trace line of a file nowhere on disk
      <<Loc(1, "test.lua", "8")>>,             \* not indented: no Lua trace line
      <<ISE, Loc(1, "test.lua", "3")>>,        \* Java-wrapped Lua, if the first line
      <<TAB, Frame(<<"cc", "Foo">>, "7")>>,    \* Java frames
      <<TAB, Frame(<<"cc", "Bar">>, "9")>>,
      <<SP, Frame(<<"cc", "Foo">>, "11")>>,    \* a space for the tab: no Java frame
      <<>> }

RECURSIVE JoinLines(_)
JoinLines(lines) ==
    IF lines = <<>> THEN <<>>
    ELSE IF Len(lines) = 1 THEN lines[1]
    ELSE lines[1] \o <<NL>> \o JoinLines(Tail(lines))

InitLocation ==
    /\ arg \in {JoinLines(lines) : lines \in SeqsUpTo(SampleLines, MaxLines)}
    /\ disk \in SUBSET {CoreLua, CoreFoo, CommonBar}
    /\ ret = None
    /\ pc = "call"
    /\ out = <<>>
    /\ proj = 0
    /\ parsed = <<>>

call_find_location ==
    /\ pc = "call"
    /\ ret' = find_location(arg)
    /\ pc' = "return"
    /\ UNCHANGED <<disk, arg, out, proj, parsed>>

NextLocation == call_find_location

SpecLocation == InitLocation /\ [][NextLocation]_vars

\* a match's (path, line) as the location it resolves to, or None
Resolved(location) ==
    IF location = None THEN None
    ELSE IF find_file(location[1]) = None THEN None
    ELSE <<find_file(location[1])[1], location[2]>>

\* the Java frames of the text whose converted path resolves
ResolvableFrames(text) ==
    LET frames == JAVA_ERROR_LOCATION(text)
    IN  {n \in 1..Len(frames) :
            \E i \in 1..Len(PROJECT_LOCATIONS), j \in 1..Len(SOURCE_LOCATIONS) :
               (PROJECT_LOCATIONS[i] \o "/" \o SOURCE_LOCATIONS[j] \o "/"
                   \o JoinWith(frames[n][1], "/") \o ".java") \in disk}

\* C2: the Lua-style match wins when its file resolves; failing that the
\* Java-wrapped-Lua match when its file resolves; failing both, the result
\* is the existing file and the line of a Java frame that resolves, when
\* there is one; and the result is None when no matcher yields a file that
\* resolves. The result is never a path that is not on disk.
C2_MatcherPriority ==
    pc = "return" =>
       LET lua == Resolved(LUA_ERROR_LOCATION(arg))
           wrapped == Resolved(JAVA_LUA_ERROR_LOCATION(arg))
           frames == JAVA_ERROR_LOCATION(arg)
       IN  /\ lua # None => ret = lua
           /\ (lua = None /\ wrapped # None) => ret = wrapped
           /\ (lua = None /\ wrapped = None /\ ResolvableFrames(arg) # {}) =>
                 /\ ret # None
                 /\ \E n \in ResolvableFrames(arg) :
                       ret = Resolved(<<java_path(frames[n][1]), frames[n][2]>>)
           /\ (lua = None /\ wrapped = None /\ ResolvableFrames(arg) = {}) => ret = None
           /\ ret # None => ret[1] \in disk

\* a text with a Lua trace line whose file does not resolve and a Java
\* frame that does: the frame is the result
C2_Witness ==
    /\ pc = "return"
    /\ LUA_ERROR_LOCATION(arg) # None
    /\ Resolved(LUA_ERROR_LOCATION(arg)) = None
    /\ JAVA_LUA_ERROR_LOCATION(arg) = None
    /\ ret = <<CoreFoo, "7">>

\* C3: when neither Lua matcher yields a file, the result is the first
\* Java frame, in textual order, whose qualified name, dots turned into
\* separators and ".java" appended, exists under some project and source
\* root: that file, with the line number of the same frame. Frames before
\* it that do not resolve are skipped; with no frame that resolves the
\* result is None.
C3_FirstResolvableFrame ==
    (/\ pc = "return"
     /\ Resolved(LUA_ERROR_LOCATION(arg)) = None
     /\ Resolved(JAVA_LUA_ERROR_LOCATION(arg)) = None) =>
       LET frames == JAVA_ERROR_LOCATION(arg)
           good == ResolvableFrames(arg)
       IN  IF good = {} THEN ret = None
           ELSE LET n == CHOOSE m \in good : \A k \in good : m <= k
                IN  /\ ret # None
                    /\ ret[2] = frames[n][2]
                    /\ \E i \in 1..Len(PROJECT_LOCATIONS), j \in 1..Len(SOURCE_LOCATIONS) :
                          ret[1] = PROJECT_LOCATIONS[i] \o "/" \o SOURCE_LOCATIONS[j] \o "/"
                                      \o JoinWith(frames[n][1], "/") \o ".java"
                    /\ ret[1] \in disk

\* two Java frames, the first of a class with no file on disk
C3_Witness ==
    /\ pc = "return"
    /\ Len(JAVA_ERROR_LOCATION(arg)) = 2
    /\ ResolvableFrames(arg) = {2}
    /\ ret # None
    /\ ret[2] = JAVA_ERROR_LOCATION(arg)[2][2]
    /\ ret[2] # JAVA_ERROR_LOCATION(arg)[1][2]

----------------------------------------------------------------------------
(* _parse_junit_file on its own: reports of up to MaxCases root children   *)
(* of every shape, reports of one failure with every message of up to      *)
(* MaxMsgLen tokens, and reports of one failure whose body starts with a   *)
(* path.                                                                   *)

SampleChildren ==
    {<<>>, <<SystemOut, FailLua>>, <<FailPlain, FailLua>>}
        \cup {<<r>> : r \in {FailLua, FailPlain, FailNoMessage, FailNoText, SystemOut}}

SampleCases ==
    {Element("testcase", attrib, None, children) :
        attrib \in {TestAttrib, [classname |-> "T"]}, children \in SampleChildren}
      \cup {Element("properties", TestAttrib, None, <<FailLua>>)}

OneFailure(message, body) ==
    Report(<<Testcase(<<Element("failure", [message |-> message], body, <<>>)>>)>>)

\* the messages of up to n tokens
Messages(n) == SeqsUpTo({Txt("boom"), SP, NL, TRACEBACK}, n)

\* "<indent>/<rest>:42: boom\nstack traceback:\n..."
PathBody(indent, rest) ==
    indent \o <<Loc(1, rest, "42"), SP, Txt("boom"), NL, TRACEBACK, NL, Txt("...")>>

SamplePathBodies ==
    {PathBody(indent, rest) :
        indent \in {<<>>, <<TAB>>},
        rest \in {"repo/projects/core/src/main/java/Foo.java", "Foo.java"}}

\* the reports of up to n root children and of messages of up to m tokens
Reports(n, m) ==
    {Malformed}
      \cup {Report(root) : root \in SeqsUpTo(SampleCases, n)}
      \cup {OneFailure(message, b) : message \in Messages(m), b \in {LuaBody, JavaBody, PlainBody}}
      \cup {OneFailure(message, b) :
               message \in {PlainMessage, TraceMessage}, b \in SamplePathBodies}
      \cup {OneFailure(b, b) : b \in SamplePathBodies}

InitJUnit ==
    /\ arg \in Reports(MaxCases, MaxMsgLen)
    /\ disk \in {{}, {CoreLua, CoreFoo, CoreTopFoo}}
    /\ ret = None
    /\ pc = "call"
    /\ out = <<>>
    /\ proj = 0
    /\ parsed = <<>>

call_parse_junit_file ==
    /\ pc = "call"
    /\ LET r == _parse_junit_file(arg)
       IN  /\ out' = r.lines
           /\ pc' = IF r.raised THEN "raised" ELSE "return"
    /\ UNCHANGED <<disk, arg, ret, proj, parsed>>

NextJUnit == call_parse_junit_file

SpecJUnit == InitJUnit /\ [][NextJUnit]_vars

\* text with each maximal run of whitespace replaced by one space: the
\* tokens that are no whitespace, and a space for each whitespace token
\* that does not follow another
Collapsed(text) ==
    LET keep == {i \in 1..Len(text) : ~IsSpace(text[i]) \/ i = 1 \/ ~IsSpace(text[i - 1])}
        nth(n) == CHOOSE i \in keep : Cardinality({j \in keep : j < i}) = n - 1
    IN  [n \in 1..Cardinality(keep) |-> IF IsSpace(text[nth(n)]) THEN SP ELSE text[nth(n)]]

\* text up to its last "\nstack traceback:", or text itself if it has none
BeforeTraceback(text) ==
    LET marks == {i \in 1..(Len(text) - 1) : text[i] = NL /\ text[i + 1] = TRACEBACK}
    IN  IF marks = {} THEN text
        ELSE SubSeq(text, 1, (CHOOSE m \in marks : \A n \in marks : n <= m) - 1)

\* "## <file>:<line>: <qualified-name> failed: <summary>"
Located(location, pair, summary) ==
    Printed("annotation",
            "## " \o location[1] \o ":" \o location[2] \o ": " \o QualifiedName(pair)
                \o " failed: " \o RenderAll(summary))

Unlocated(pair) == Printed("error", "::error::" \o QualifiedName(pair) \o " failed")

\* C4: a report parsed without an exception has printed, for each failure
\* child of each testcase child of its root, in document order, one block
\* of four records: the header (the annotation if the location resolved,
\* the ::error:: line if not), the start-group directive, the raw body and
\* the end-group directive; and nothing else, so nothing for a testcase
\* without a failure, for a child of a testcase that is no failure, or for
\* a child of the root that is no testcase.
C4_OneBlockPerFailure ==
    pc = "return" =>
       LET fs == FailuresOf(arg.root)
       IN  /\ Len(out) = 4 * Len(fs)
           /\ \A j \in 1..Len(fs) :
                 LET location == find_location(fs[j][2].text)
                 IN  /\ out[4 * j - 3] =
                          (IF location # None
                           THEN Located(location, fs[j],
                                        SPACES_sub(error_of(fs[j][2].attrib.message)))
                           ELSE Unlocated(fs[j]))
                     /\ out[4 * j - 2] = Printed("group", "::group::Full error message")
                     /\ out[4 * j - 1] = Printed("text", RenderAll(fs[j][2].text))
                     /\ out[4 * j] = Printed("endgroup", "::endgroup")

\* a report of a passing testcase and a testcase with a system-out and a
\* failure: one block
C4_Witness ==
    /\ pc = "return"
    /\ arg = Report(<<Testcase(<<>>), Testcase(<<SystemOut, FailLua>>)>>)
    /\ Len(out) = 4
    /\ out[1].kind = "annotation"

\* C5 as stated: the summary of a located failure is the body's text before
\* "\nstack traceback:" if the body has one, else the message attribute,
\* whitespace collapsed.
C5_SummaryFromBody ==
    pc = "return" =>
       \A j \in 1..Len(FailuresOf(arg.root)) :
          LET pair == FailuresOf(arg.root)[j]
              body == pair[2].text
              location == find_location(body)
              marked == BeforeTraceback(body) # body
          IN  location # None =>
                 out[4 * j - 3] =
                    Located(location, pair,
                            Collapsed(IF marked THEN BeforeTraceback(body)
                                      ELSE pair[2].attrib.message))

\* C5 amended: the summary of a located failure is chosen by the message
\* attribute alone: the attribute up to its last "\nstack traceback:" if
\* it has one, else the whole attribute; every run of whitespace of the
\* summary is one space.
C5_SummaryFromMessage ==
    pc = "return" =>
       \A j \in 1..Len(FailuresOf(arg.root)) :
          LET pair == FailuresOf(arg.root)[j]
              location == find_location(pair[2].text)
          IN  location # None =>
                 out[4 * j - 3] =
                    Located(location, pair, Collapsed(BeforeTraceback(pair[2].attrib.message)))

\* a located failure whose message is "boom \n\nstack traceback:" and whose
\* body is "oops\nstack traceback:\n\t/test.lua:42:": the summary is "boom "
C5_Witness ==
    /\ pc = "return"
    /\ arg = OneFailure(<<Txt("boom"), SP, NL, NL, TRACEBACK>>, LuaBody)
    /\ out[1] = Printed("annotation",
                        "## projects/core/src/test/resources/test.lua:42: T.t failed: boom ")


\* the body of a failure starts with "/repo/<existing file>:<line>: <text>",
\* a line break and "stack traceback:"
StartsWithRepoPath(body) ==
    /\ Len(body) >= 5
    /\ body[1].k = "loc"
    /\ body[1].lead = 1
    /\ \E file \in disk : body[1].rest = "repo/" \o file
    /\ body[2] = SP
    /\ body[3].k = "txt"
    /\ body[4] = NL
    /\ body[5] = TRACEBACK

\* C6 as stated: a failure whose body starts directly with
\* "/repo/<project-root>/<source-root>/<file>:<line>: <text>\nstack
\* traceback:", that file existing, is printed as the annotation
\* "## <project-root>/<source-root>/<file>:<line>: <name> failed: <text>".
C6_RepoPathLocated ==
    pc = "return" =>
       \A j \in 1..Len(FailuresOf(arg.root)) :
          LET pair == FailuresOf(arg.root)[j]
              body == pair[2].text
          IN  StartsWithRepoPath(body) =>
                 \E file \in disk :
                    /\ body[1].rest = "repo/" \o file
                    /\ out[4 * j - 3] = Located(<<file, body[1].line>>, pair, <<body[3]>>)

\* C6 amended: a failure whose body starts with whitespace and then
\* "/<file>:<line>:", where <project-root>/<source-root>/<file> exists, is
\* printed as "## <project-root>/<source-root>/<file>:<line>: <name>
\* failed: <summary>", the summary being that of the message attribute; a
\* failure whose body starts directly with the path, and names no other
\* location, is printed as "::error::<name> failed", whatever exists.
C6_IndentedPathLocated ==
    pc = "return" =>
       \A j \in 1..Len(FailuresOf(arg.root)) :
          LET pair == FailuresOf(arg.root)[j]
              body == pair[2].text
          IN  /\ (/\ Len(body) >= 2
                  /\ IsSpace(body[1])
                  /\ body[2].k = "loc"
                  /\ Hits(body[2].rest) # {}) =>
                    \E ij \in Hits(body[2].rest) :
                       /\ \A kl \in Hits(body[2].rest) : NoLater(ij, kl)
                       /\ out[4 * j - 3] =
                             Located(<<PROJECT_LOCATIONS[ij[1]] \o "/" \o SOURCE_LOCATIONS[ij[2]]
                                          \o "/" \o body[2].rest,
                                       body[2].line>>,
                                     pair,
                                     Collapsed(BeforeTraceback(pair[2].attrib.message)))
              /\ (/\ Len(body) >= 1
                  /\ body[1].k = "loc"
                  /\ \A i \in 2..Len(body) : body[i].k \notin {"loc", "frame"}) =>
                    out[4 * j - 3] = Unlocated(pair)

\* the body "/repo/projects/core/src/main/java/Foo.java:42: boom\nstack
\* traceback:\n...", that Foo.java existing: printed as "::error::T.t failed"
C6_Witness ==
    /\ pc = "return"
    /\ CoreTopFoo \in disk
    /\ arg = OneFailure(PlainMessage,
                        PathBody(<<>>, "repo/projects/core/src/main/java/Foo.java"))
    /\ out[1] = Printed("error", "::error::T.t failed")

----------------------------------------------------------------------------
(* _parse_checkstyle on its own: reports of up to MaxCases root children.  *)

ErrorAsException ==
    Element("exception", [severity |-> "error", line |-> "3", message |-> <<Txt("bad")>>],
            None, <<>>)

SampleErrors ==
    { <<>>, <<ErrorPlain>>, <<ErrorColumn, ErrorPlain>>, <<ErrorNoMessage>>,
      <<ErrorAsException>> }

SampleCheckstyleRoots ==
    {Element(tag, attrib, None, errors) :
        tag \in {"file", "other"},
        attrib \in {[name |-> NameA], [name |-> NameInRepo], [name |-> NameOutside],
                    [name |-> FileName(FALSE, <<>>)], [id |-> "x"]},
        errors \in SampleErrors}

InitCheckstyle ==
    /\ disk = {}
    /\ arg \in {Malformed} \cup {Report(root) : root \in SeqsUpTo(SampleCheckstyleRoots, MaxCases)}
    /\ ret = None
    /\ pc = "call"
    /\ out = <<>>
    /\ proj = 0
    /\ parsed = <<>>

call_parse_checkstyle ==
    /\ pc = "call"
    /\ LET r == _parse_checkstyle(arg)
       IN  /\ out' = r.lines
           /\ pc' = IF r.raised THEN "raised" ELSE "return"
    /\ UNCHANGED <<disk, arg, ret, proj, parsed>>

NextCheckstyle == call_parse_checkstyle

SpecCheckstyle == InitCheckstyle /\ [][NextCheckstyle]_vars

\* the (file, error) pairs of a report root, in document order: the error
\* children of its file children
RECURSIVE ErrorsIn(_, _)
ErrorsIn(file, errors) ==
    IF errors = <<>> THEN <<>>
    ELSE (IF Head(errors).tag = "error" THEN <<<<file, Head(errors)>>>> ELSE <<>>)
         \o ErrorsIn(file, Tail(errors))

RECURSIVE ErrorsOf(_)
ErrorsOf(root) ==
    IF root = <<>> THEN <<>>
    ELSE (IF Head(root).tag = "file" THEN ErrorsIn(Head(root), Head(root).children) ELSE <<>>)
         \o ErrorsOf(Tail(root))

\* C8: a report parsed without an exception has printed one line
\* "<severity> <relative-path>:<line>:<column>: <message>" for each error
\* child of each file child of its root, in document order, the column "1"
\* exactly when the attribute is absent and the message with its runs of
\* whitespace collapsed; and nothing for elements that are no file or no
\* error.
C8_OneLinePerError ==
    pc = "return" =>
       LET es == ErrorsOf(arg.root)
       IN  /\ Len(out) = Len(es)
           /\ \A j \in 1..Len(es) :
                 LET attrib == es[j][2].attrib
                 IN  out[j] =
                        Printed("issue",
                                attrib.severity \o " " \o relpath(es[j][1].attrib.name) \o ":"
                                    \o attrib.line \o ":"
                                    \o (IF Has(attrib, "column") THEN attrib.column ELSE "1")
                                    \o ": " \o RenderAll(Collapsed(attrib.message)))

====
